---- MODULE Spec2Model ----
(***************************************************************************)
(* Levenberg-Marquardt curve fitting (src/src/index.ts): the optimizer     *)
(* lma, the step computation step with gradientFunction and               *)
(* matrixFunction, and the error evaluator error.                         *)
(*                                                                         *)
(* Numbers.  A JavaScript number is modelled as an exact rational          *)
(* <<n, d>> with d > 0 in lowest terms, NaN as <<0, 0>> and the value      *)
(* undefined as <<0, -1>>.  Arithmetic on undefined converts it to NaN     *)
(* and every comparison with NaN or undefined is false, as in JavaScript.  *)
(* Rounding and overflow of IEEE doubles are not modelled; no input of     *)
(* the model divides a non-zero number by zero, so Infinity never arises.  *)
(*                                                                         *)
(* Arrays.  A JavaScript array is an object on a heap: heap[r] is the      *)
(* content of the array with reference r, and the variables that hold      *)
(* arrays (options.initialValues, parameters, par, lastParams) hold        *)
(* references, so that aliasing and in-place writes are visible.           *)
(***************************************************************************)
EXTENDS Integers, Sequences, FiniteSets, TLC

(***************************************************************************)
(* Bounds of the model.                                                    *)
(***************************************************************************)
\* count of the bracketing loop is only ever compared with maxIterations;
\* it is kept exactly up to MaxCount (above every maxIterations drawn).
MaxCount == 3
\* a bracketing iteration is explored only while the numerator and the
\* denominator of damp stay within MaxNumber
MaxNumber == 16

(***************************************************************************)
(* JavaScript numbers                                                      *)
(***************************************************************************)
NaN == <<0, 0>>
Undef == <<0, -1>>
Zero == <<0, 1>>
One == <<1, 1>>

IsNum(a) == a[2] > 0

AbsInt(k) == IF k < 0 THEN -k ELSE k

RECURSIVE GCD(_, _)
GCD(a, b) == IF b = 0 THEN a ELSE GCD(b, a % b)

\* the rational n/d (d # 0) in lowest terms with a positive denominator
Norm(n, d) ==
    LET g == GCD(AbsInt(n), AbsInt(d))
        s == IF d < 0 THEN -1 ELSE 1
    IN <<(s * n) \div g, (s * d) \div g>>

Num(k) == <<k, 1>>

\* sums, products and comparisons reduce by common factors before they
\* multiply, which keeps the intermediate integers small
Add(a, b) ==
    IF IsNum(a) /\ IsNum(b)
    THEN LET g == GCD(a[2], b[2])
         IN Norm(a[1] * (b[2] \div g) + b[1] * (a[2] \div g), (a[2] \div g) * b[2])
    ELSE NaN
Neg(a) == IF IsNum(a) THEN <<-a[1], a[2]>> ELSE NaN
Sub(a, b) == Add(a, Neg(b))
Mul(a, b) ==
    IF IsNum(a) /\ IsNum(b)
    THEN LET x == Norm(a[1], b[2])
             y == Norm(b[1], a[2])
         IN <<x[1] * y[1], x[2] * y[2]>>
    ELSE NaN
\* a / b; 0 / 0 is NaN (no input of the model divides a non-zero number by zero)
Div(a, b) ==
    IF IsNum(a) /\ IsNum(b) /\ b[1] # 0
    THEN Mul(a, Norm(b[2], b[1]))
    ELSE NaN
Abs(a) == IF IsNum(a) THEN <<AbsInt(a[1]), a[2]>> ELSE NaN

Lt(a, b) ==
    /\ IsNum(a) /\ IsNum(b)
    /\ LET g == GCD(a[2], b[2]) IN a[1] * (b[2] \div g) < b[1] * (a[2] \div g)
Gt(a, b) == Lt(b, a)
Le(a, b) ==
    /\ IsNum(a) /\ IsNum(b)
    /\ LET g == GCD(a[2], b[2]) IN a[1] * (b[2] \div g) <= b[1] * (a[2] \div g)
Ge(a, b) == Le(b, a)
isNaN(a) == ~IsNum(a)

(***************************************************************************)
(* The caller's model functions (parameterizedFunction), one parameter:    *)
(*   "linear"   params => x => params[0] * x                               *)
(*   "halfline" params => x => params[0] < 0 ? NaN : params[0] * x         *)
(*   "relu"     params => x => Math.max(params[0], 0) * x                  *)
(***************************************************************************)
Models == {"linear", "halfline", "relu"}

Apply(fn, params, x) ==
    CASE fn = "linear" -> Mul(params[1], x)
      [] fn = "halfline" -> IF Lt(params[1], Zero) THEN NaN ELSE Mul(params[1], x)
      [] fn = "relu" -> IF Lt(params[1], Zero) THEN Mul(Zero, x) ELSE Mul(params[1], x)

(***************************************************************************)
(* error: the sum of the absolute residuals                                *)
(***************************************************************************)
RECURSIVE errorLoop(_, _, _, _, _)
errorLoop(data, params, fn, i, err) ==
    IF i > Len(data.x) THEN err
    ELSE errorLoop(data, params, fn, i + 1,
                   Add(err, Abs(Sub(data.y[i], Apply(fn, params, data.x[i])))))

error(data, params, fn) == errorLoop(data, params, fn, 1, Zero)

(***************************************************************************)
(* The dense matrices of mathjs, as sequences of rows                      *)
(***************************************************************************)
\* the array with the elements of f (an evaluated tuple)
Array(f) == f \o <<>>

RECURSIVE SumTo(_, _)
SumTo(f, k) == IF k = 0 THEN Zero ELSE Add(SumTo(f, k - 1), f[k])

transpose(A) == Array([c \in 1..Len(A[1]) |-> Array([r \in 1..Len(A) |-> A[r][c]])])

multiply(A, B) ==
    Array([r \in 1..Len(A) |->
        Array([c \in 1..Len(B[1]) |->
            SumTo(Array([k \in 1..Len(B) |-> Mul(A[r][k], B[k][c])]), Len(B))])])

scale(A, s) ==
    Array([r \in 1..Len(A) |-> Array([c \in 1..Len(A[1]) |-> Mul(A[r][c], s)])])

add(A, B) ==
    Array([r \in 1..Len(A) |-> Array([c \in 1..Len(A[1]) |-> Add(A[r][c], B[r][c])])])

subtract(A, B) ==
    Array([r \in 1..Len(A) |-> Array([c \in 1..Len(A[1]) |-> Sub(A[r][c], B[r][c])])])

eye(n) == Array([r \in 1..n |-> Array([c \in 1..n |-> IF r = c THEN One ELSE Zero])])

\* math.inv of a 1 x 1 matrix throws when its entry is 0 and is
\* [[1 / entry]] otherwise
invThrows(A) == A[1][1] = Zero
inv(A) == <<<<Div(One, A[1][1])>>>>

(***************************************************************************)
(* gradientFunction: row param of the result holds, for every sample,      *)
(* evaluatedData[point] minus the model evaluated with parameter param     *)
(* increased by gradientDifference.  The perturbation is written into      *)
(* auxParams, a copy of params (params.concat()), so the array params is   *)
(* left as it was; the field params of the result is the content of the    *)
(* argument array when the function returns.                               *)
(***************************************************************************)
\* the same loop writing into params itself instead of a copy
gradientFunctionNoCopy(data, evaluatedData, params, gradientDifference, paramFunction) ==
    LET n == Len(params)
        m == Len(data.x)
        auxParams(param) ==
            Array([q \in 1..n |-> IF q <= param THEN Add(params[q], gradientDifference)
                                                ELSE params[q]])
    IN [ans |-> Array([param \in 1..n |->
                    Array([point \in 1..m |->
                        Sub(evaluatedData[point],
                            Apply(paramFunction, auxParams(param), data.x[point]))])]),
        params |-> auxParams(n)]

gradientFunction(data, evaluatedData, params, gradientDifference, paramFunction) ==
    LET n == Len(params)
        m == Len(data.x)
        auxParams(param) ==
            [params EXCEPT ![param] = Add(params[param], gradientDifference)]
    IN [ans |-> Array([param \in 1..n |->
                    Array([point \in 1..m |->
                        Sub(evaluatedData[point],
                            Apply(paramFunction, auxParams(param), data.x[point]))])]),
        params |-> params]

\* matrixFunction: the 1 x m matrix of the residuals y - evaluatedData
matrixFunction(data, evaluatedData) ==
    <<Array([point \in 1..Len(data.x) |-> Sub(data.y[point], evaluatedData[point])])>>

(***************************************************************************)
(* step: one damped Gauss-Newton step from params.  The result is a record *)
(*   threw   TRUE when a mathjs call throws: math.inv on a zero matrix, or *)
(*           a mathjs function applied to the value undefined              *)
(*   p       the new parameter vector (a fresh array)                      *)
(*   params  the content of the argument array when step returns           *)
(***************************************************************************)
step(data, params, damping, gradientDifference, parameterizedFunction) ==
    LET identity == scale(eye(Len(params)),
                          Mul(Mul(damping, gradientDifference), gradientDifference))
        l == Len(data.x)
        evaluatedData ==
            Array([i \in 1..l |-> Apply(parameterizedFunction, params, data.x[i])])
        g == gradientFunction(data, evaluatedData, params, gradientDifference,
                              parameterizedFunction)
        gradientFunc == g.ans
        matrixFunc == transpose(matrixFunction(data, evaluatedData))
        A == add(identity, multiply(gradientFunc, transpose(gradientFunc)))
        inverseMatrix == inv(A)
        delta == transpose(scale(multiply(multiply(inverseMatrix, gradientFunc), matrixFunc),
                                 gradientDifference))
        threw == invThrows(A) \/ gradientDifference = Undef
                    \/ \E q \in 1..Len(params) : g.params[q] = Undef
    IN [threw |-> threw,
        p |-> IF threw THEN <<>> ELSE subtract(<<g.params>>, delta)[1],
        params |-> g.params]

(***************************************************************************)
(* The inputs of a call lma(data, parameterizedFunction, options).  The    *)
(* caller passes an options object with initialValues; each other field is *)
(* either supplied or omitted (it then reads as undefined).                *)
(***************************************************************************)
Datasets ==
    { [x |-> <<One>>, y |-> <<Num(2)>>],
      [x |-> <<One>>, y |-> <<Num(-1)>>],
      [x |-> <<One, One, One>>, y |-> <<Zero, Zero, Num(3)>>],
      [x |-> <<Zero>>, y |-> <<One>>] }

InitialVectors == { <<Zero>>, <<One>>, <<Num(-1)>> }

\* array references; NoRef is a variable that holds no array yet
Refs == 1..4
NoRef == 0
\* the caller's initialValues array
InitRef == 1

\* options objects with every field supplied
SuppliedOptions ==
    [damping : {Zero, One}, gradientDifference : {<<1, 10>>}, initialValues : {InitRef},
     maxIterations : {Num(0), Num(1), Num(2)}, errorTolerance : {<<1, 100>>, One},
     v : {Num(2), <<3, 2>>}]

OptionalFields == {"damping", "gradientDifference", "maxIterations", "errorTolerance", "v"}

\* the options objects a caller passes: every field supplied, or one omitted
OptionsObjects ==
    SuppliedOptions \cup
        { [o EXCEPT ![f] = Undef] : o \in SuppliedOptions, f \in OptionalFields }

\* the default options object of the signature
DefaultOptions ==
    [damping |-> Zero, errorTolerance |-> <<1, 100>>, gradientDifference |-> <<1, 10>>,
     maxIterations |-> Num(100), v |-> <<3, 2>>]

VARIABLES
    data, fn, options,          \* the arguments of the call
    heap,                       \* the arrays: reference -> content
    maxIterations, gradientDifference, damping, errorTolerance, v,
    parameters, par, lastParams,        \* references
    err, errD, errV, damp, count, converged, i,
    result,                     \* the returned object
    pc,                         \* position in lma
    given,                      \* the arguments as they were at the call
    steps2,                     \* step calls made by the refinement loop
    nanStep,                    \* a refinement step gave a NaN error
    first2,                     \* arguments of the first refinement step call
    last2,                      \* content of params at the latest refinement step call
    ran1,                       \* the bracketing body has run
    brk                         \* the bracketing loop was left by break

vars == <<data, fn, options, heap, maxIterations, gradientDifference, damping,
          errorTolerance, v, parameters, par, lastParams, err, errD, errV, damp,
          count, converged, i, result, pc, given, steps2, nanStep, first2, last2,
          ran1, brk>>

args == <<data, fn, options, given>>
consts == <<maxIterations, gradientDifference, damping, errorTolerance, v>>
ghosts2 == <<steps2, nanStep, first2, last2>>

NoResult == [iterations |-> -1, parameterError |-> Undef, parameterValues |-> NoRef]
NoCall == [params |-> <<>>, damping |-> Undef]

Init ==
    /\ data \in Datasets
    /\ fn \in Models
    /\ options \in OptionsObjects
    /\ \E iv \in InitialVectors : heap = [r \in Refs |-> IF r = InitRef THEN iv ELSE <<>>]
    /\ given = [data |-> data, options |-> options, initialValues |-> heap[InitRef]]
    /\ maxIterations = Undef /\ gradientDifference = Undef /\ damping = Undef
    /\ errorTolerance = Undef /\ v = Undef
    /\ parameters = NoRef /\ par = NoRef /\ lastParams = NoRef
    /\ err = Undef /\ errD = Undef /\ errV = Undef /\ damp = Undef
    /\ count = 0 /\ converged = FALSE /\ i = 0
    /\ result = NoResult
    /\ pc = "entry"
    /\ steps2 = 0 /\ nanStep = FALSE /\ first2 = NoCall /\ last2 = <<>>
    /\ ran1 = FALSE /\ brk = FALSE

\* a reference that no variable in roots holds
Alloc(roots) == CHOOSE r \in Refs : r \notin roots /\ \A s \in Refs : s \notin roots => r <= s

\* the heap with the arrays no variable refers to dropped
Collect(h, roots) == [r \in Refs |-> IF r \in roots THEN h[r] ELSE <<>>]

(***************************************************************************)
(* lines 29-45: destructure options, baseline error, loop variables        *)
(***************************************************************************)
Entry ==
    /\ pc = "entry"
    /\ maxIterations' = options.maxIterations
    /\ gradientDifference' = options.gradientDifference
    /\ damping' = options.damping
    /\ errorTolerance' = options.errorTolerance
    /\ v' = options.v
    /\ parameters' = options.initialValues
    /\ err' = error(data, heap[options.initialValues], fn)
    /\ damp' = options.damping
    /\ count' = 0
    /\ par' = options.initialValues
    /\ pc' = "phase1"
    /\ UNCHANGED <<args, heap, lastParams, errD, errV, converged, i, result, ghosts2,
                   ran1, brk>>

(***************************************************************************)
(* Phase 1, lines 46-64: the do-while loop that brackets the damping.      *)
(* One action is one pass through the body and the loop condition.         *)
(***************************************************************************)
Small(a) == a[1] <= MaxNumber /\ -MaxNumber <= a[1] /\ a[2] <= MaxNumber

\* line 62; the counter is kept exactly up to MaxCount
Increment(c) == IF c < MaxCount THEN c + 1 ELSE c

\* line 53
LowerSubtracts(d, vv) == Sub(d, vv)
Lower(d, vv) == Div(d, vv)

\* line 59
Raise(d, vv) == Mul(d, vv)

\* line 47: the call that gives stepD
callD == step(data, heap[par], damp, gradientDifference, fn)

\* line 49: the call that gives stepV, after the call sD for stepD
callV(sD) == step(data, sD.params, Div(damp, v), gradientDifference, fn)

\* the heap after the two calls: the content of the array par they were given
heapV(sV) == [heap EXCEPT ![par] = sV.params]

\* line 51
Improving(e, eD, eV) == Gt(e, eD) \/ Gt(e, eV)

\* line 64
LoopAgain(e, eD, eV, c, mi) == Lt(e, eD) \/ Lt(e, eV) \/ Lt(Num(c), mi)

Phase1Ready == pc = "phase1" /\ Small(damp)

\* a step call of the body throws.  The call for stepV throws only when the
\* call for stepD does: both build the same matrix but for the damping term.
Phase1Throw ==
    /\ Phase1Ready
    /\ \E sD \in {callD} :
          /\ sD.threw
          /\ heap' = [heap EXCEPT ![par] = sD.params]
    /\ ran1' = TRUE
    /\ pc' = "thrown"
    /\ UNCHANGED <<args, consts, parameters, par, lastParams, err, errD, errV, damp,
                   count, converged, i, result, ghosts2, brk>>

\* lines 47-50 without a throw: the two calls and the two candidate errors
Candidates ==
    UNION { { [sV |-> sV, errD |-> error(data, sD.p, fn), errV |-> error(data, sV.p, fn)] :
                sV \in { t \in {callV(sD)} : ~t.threw } } :
            sD \in { c \in {callD} : ~c.threw } }

\* lines 51-54: a candidate improves and stepV is the better one
Phase1Accept ==
    /\ Phase1Ready
    /\ \E c \in Candidates :
          /\ Improving(err, c.errD, c.errV) /\ Gt(c.errD, c.errV)
          /\ errD' = c.errD /\ errV' = c.errV
          /\ damp' = Lower(damp, v)
          /\ LET roots == {options.initialValues, parameters, lastParams} \ {NoRef}
                 r == Alloc(roots)
             IN /\ par' = r
                /\ heap' = Collect([heapV(c.sV) EXCEPT ![r] = c.sV.p], roots \cup {r})
          /\ count' = Increment(count)
          /\ pc' = IF LoopAgain(err, c.errD, c.errV, count', maxIterations)
                   THEN "phase1" ELSE "refine"
    /\ ran1' = TRUE
    /\ brk' = FALSE
    /\ UNCHANGED <<args, consts, parameters, lastParams, err, converged, i, result,
                   ghosts2>>

\* lines 51-56: a candidate improves and stepV is not the better one
Phase1Break ==
    /\ Phase1Ready
    /\ \E c \in Candidates :
          /\ Improving(err, c.errD, c.errV) /\ ~Gt(c.errD, c.errV)
          /\ errD' = c.errD /\ errV' = c.errV
          /\ heap' = heapV(c.sV)
    /\ ran1' = TRUE
    /\ brk' = TRUE
    /\ pc' = "refine"
    /\ UNCHANGED <<args, consts, parameters, par, lastParams, err, damp, count,
                   converged, i, result, ghosts2>>

\* lines 58-60: no candidate improves
Phase1Raise ==
    /\ Phase1Ready
    /\ \E c \in Candidates :
          /\ ~Improving(err, c.errD, c.errV)
          /\ errD' = c.errD /\ errV' = c.errV
          /\ damp' = Raise(damp, v)
          /\ heap' = heapV(c.sV)
          /\ count' = Increment(count)
          /\ pc' = IF LoopAgain(err, c.errD, c.errV, count', maxIterations)
                   THEN "phase1" ELSE "refine"
    /\ ran1' = TRUE
    /\ brk' = FALSE
    /\ UNCHANGED <<args, consts, parameters, par, lastParams, err, converged, i,
                   result, ghosts2>>

(***************************************************************************)
(* lines 66-68: set up the refinement loop                                 *)
(***************************************************************************)
Refine ==
    /\ pc = "refine"
    /\ converged' = Le(err, errorTolerance)
    /\ i' = 0
    /\ lastParams' = options.initialValues
    /\ pc' = "phase2"
    /\ UNCHANGED <<args, consts, heap, parameters, par, err, errD, errV, damp, count,
                   result, ghosts2, ran1, brk>>

(***************************************************************************)
(* Phase 2, lines 69-81: the refinement loop, one action per pass          *)
(***************************************************************************)
\* line 69
Phase2Ready == pc = "phase2" /\ Lt(Num(i), maxIterations) /\ ~converged

\* lines 70-76
call2 == step(data, heap[parameters], damp, gradientDifference, fn)

Called2 ==
    /\ steps2' = steps2 + 1
    /\ first2' = IF steps2 = 0 THEN [params |-> heap[parameters], damping |-> damp]
                 ELSE first2
    /\ last2' = heap[parameters]

Phase2Throw ==
    /\ Phase2Ready
    /\ \E s \in {call2} :
          /\ s.threw
          /\ heap' = [heap EXCEPT ![parameters] = s.params]
    /\ Called2
    /\ pc' = "thrown"
    /\ UNCHANGED <<args, consts, parameters, par, lastParams, err, errD, errV, damp,
                   count, converged, i, result, nanStep, ran1, brk>>

\* the call of lines 70-76 without a throw, and the error of line 77
Refined == { [s |-> s, err |-> error(data, s.p, fn)] : s \in { t \in {call2} : ~t.threw } }

\* lines 70-80 and the i++ of line 69
Phase2Step ==
    /\ Phase2Ready
    /\ \E c \in Refined :
          /\ ~isNaN(c.err)
          /\ LET r == Alloc({options.initialValues, par, parameters})
             IN /\ parameters' = r
                /\ lastParams' = r
                /\ heap' = Collect([heap EXCEPT ![parameters] = c.s.params, ![r] = c.s.p],
                                   {options.initialValues, par, r})
          /\ err' = c.err
          /\ converged' = Le(c.err, errorTolerance)
    /\ i' = i + 1
    /\ Called2
    /\ UNCHANGED <<args, consts, par, errD, errV, damp, count, result, pc, nanStep,
                   ran1, brk>>

\* lines 70-78: the error of the new parameters is NaN, break
Phase2NaN ==
    /\ Phase2Ready
    /\ \E c \in Refined :
          /\ isNaN(c.err)
          /\ LET r == Alloc({options.initialValues, par, parameters, lastParams})
             IN /\ parameters' = r
                /\ heap' = Collect([heap EXCEPT ![parameters] = c.s.params, ![r] = c.s.p],
                                   {options.initialValues, par, lastParams, r})
          /\ err' = c.err
    /\ nanStep' = TRUE
    /\ Called2
    /\ pc' = "return"
    /\ UNCHANGED <<args, consts, par, lastParams, errD, errV, damp, count, converged,
                   i, result, ran1, brk>>

\* line 69: the loop condition fails
Phase2Exit ==
    /\ pc = "phase2"
    /\ ~(Lt(Num(i), maxIterations) /\ ~converged)
    /\ pc' = "return"
    /\ UNCHANGED <<args, consts, heap, parameters, par, lastParams, err, errD, errV,
                   damp, count, converged, i, result, ghosts2, ran1, brk>>

(***************************************************************************)
(* lines 83-87: the returned object                                        *)
(***************************************************************************)
\* a result that counts the pass in progress
ResultCountsPass(n, e, last, cur, lastError) ==
    [iterations |-> IF isNaN(e) THEN n + 1 ELSE n,
     parameterError |-> IF isNaN(e) THEN lastError ELSE e,
     parameterValues |-> IF isNaN(e) THEN last ELSE cur]

\* a result without the NaN substitution
ResultUnguarded(n, e, last, cur, lastError) ==
    [iterations |-> n, parameterError |-> e, parameterValues |-> cur]

Result(n, e, last, cur, lastError) ==
    [iterations |-> n,
     parameterError |-> IF isNaN(e) THEN lastError ELSE e,
     parameterValues |-> IF isNaN(e) THEN last ELSE cur]

Return ==
    /\ pc = "return"
    /\ result' = Result(i, err, lastParams, parameters,
                        error(data, heap[lastParams], fn))
    /\ pc' = "done"
    /\ UNCHANGED <<args, consts, heap, parameters, par, lastParams, err, errD, errV,
                   damp, count, converged, i, ghosts2, ran1, brk>>

Next ==
    \/ Entry
    \/ Phase1Throw
    \/ Phase1Accept
    \/ Phase1Break
    \/ Phase1Raise
    \/ Refine
    \/ Phase2Throw
    \/ Phase2Step
    \/ Phase2NaN
    \/ Phase2Exit
    \/ Return

Spec == Init /\ [][Next]_vars

(***************************************************************************)
(* Properties                                                              *)
(***************************************************************************)
Returned == pc = "done"

\* the content of the returned parameterValues array
ReturnedValues == heap[result.parameterValues]

\* the baseline error, at the initial values the caller passed
Baseline == error(given.data, given.initialValues, fn)

\* C1: whenever fit returns, neither the returned parameterError nor any
\* entry of the returned parameterValues is NaN.
C1_NeverReturnsNaN ==
    Returned =>
        /\ ~isNaN(result.parameterError)
        /\ \A k \in 1..Len(ReturnedValues) : ~isNaN(ReturnedValues[k])

\* C2: every call with maxIterations >= 1, v > 1 and damping >= 0 ends.  The
\* model and the step are deterministic, so a pass of the bracketing loop
\* that ends with the budget used up (count >= maxIterations), continues the
\* loop and leaves par and damp as they were is followed by the same pass
\* forever; a call that ends has no such pass.
C2_Terminates ==
    [][(/\ Ge(maxIterations, One) /\ Gt(v, One) /\ Ge(damping, Zero)
        /\ pc = "phase1" /\ pc' = "phase1"
        /\ ~Lt(Num(count'), maxIterations))
            => (heap'[par'] # heap[par] \/ damp' # damp)]_vars

\* C3: the first refinement step receives the parameter vector that phase 1
\* accepted last (par) and the damping phase 1 left (damp).
C3_RefinementStartsFromPhase1 ==
    steps2 >= 1 => first2.params = heap[par] /\ first2.damping = damp

\* C4 (as claimed): the returned iterations equals the number of step calls
\* the refinement loop made, however the loop ended.
C4_IterationsCountsStepCalls ==
    Returned => result.iterations = steps2

\* C4 (amended): the returned iterations equals the number of refinement
\* steps whose error was not NaN: the number of step calls of the loop, less
\* one when the loop ended on a step with a NaN error.
C4_IterationsCountsCompletedSteps ==
    Returned => result.iterations = steps2 - (IF nanStep THEN 1 ELSE 0)

C4_Witness == Returned /\ nanStep /\ steps2 >= 2 /\ result.iterations = 1

\* C5: a field omitted from the options object takes its default (damping 0,
\* gradientDifference 0.1, maxIterations 100, errorTolerance 0.01, v 1.5) and
\* a supplied field keeps the supplied value.
OrDefault(field) ==
    IF options[field] = Undef THEN DefaultOptions[field] ELSE options[field]

C5_OmittedFieldsTakeDefaults ==
    pc # "entry" =>
        /\ damping = OrDefault("damping")
        /\ gradientDifference = OrDefault("gradientDifference")
        /\ maxIterations = OrDefault("maxIterations")
        /\ errorTolerance = OrDefault("errorTolerance")
        /\ v = OrDefault("v")

\* C6: a call leaves its inputs unchanged: data.x, data.y, every options
\* field and every element of the initialValues array are, in every state of
\* the call, what the caller passed.
C6_InputsUnchanged ==
    /\ data = given.data
    /\ options = given.options
    /\ heap[options.initialValues] = given.initialValues

C6_Witness == Returned /\ par # options.initialValues /\ steps2 >= 2

\* C7: with initial damping >= 0 and v > 1, damp is >= 0 in every state of
\* the optimizer, and the refinement phase never changes damp.
C7_DampNonNegative ==
    /\ []((pc # "entry" /\ Ge(damping, Zero) /\ Gt(v, One)) => Ge(damp, Zero))
    /\ [][(pc \in {"refine", "phase2", "return"} => damp' = damp)]_vars

C7_Witness ==
    /\ Returned /\ Ge(damping, Zero) /\ Gt(v, One)
    /\ Lt(damp, damping) /\ count >= 2 /\ steps2 >= 1

\* C8: phase 1 runs at least one pass and is left in exactly two ways: by
\* break, in a pass where a candidate improves on err and errD > errV does
\* not hold; or at the end of a pass where count >= maxIterations and neither
\* err < errD nor err < errV holds.  err is not changed by phase 1.
C8_BracketingExits ==
    /\ [](pc \in {"refine", "phase2", "return", "done"} => ran1)
    /\ [][(pc = "phase1" /\ pc' = "refine") =>
            (\/ brk' /\ Improving(err, errD', errV') /\ ~Gt(errD', errV')
             \/ /\ ~brk'
                /\ Ge(Num(count'), maxIterations)
                /\ ~Lt(err, errD') /\ ~Lt(err, errV'))]_vars
    /\ [][(pc = "phase1" => err' = err)]_vars

\* C9: whenever fit returns, 0 <= iterations <= maxIterations and the
\* returned error is within errorTolerance, or iterations = maxIterations, or
\* a refinement step gave a NaN error; and when the baseline error is within
\* errorTolerance no refinement step runs, iterations is 0 and the returned
\* parameterValues are the initial values.
C9_ReturnStates ==
    Returned =>
        /\ 0 <= result.iterations
        /\ Le(Num(result.iterations), maxIterations)
        /\ \/ Le(result.parameterError, errorTolerance)
           \/ Num(result.iterations) = maxIterations
           \/ nanStep
        /\ Le(Baseline, errorTolerance) =>
              /\ steps2 = 0
              /\ result.iterations = 0
              /\ ReturnedValues = given.initialValues

\* C10: when a refinement step gives a NaN error the loop stops at once, and
\* fit returns the parameter vector that was the input of that step (the
\* initial values when it was the first step) with the error evaluated on
\* that vector; the vector the failing step produced is not returned.
C10_NaNStepRecovered ==
    /\ nanStep => pc \in {"return", "done"} /\ steps2 = i + 1
    /\ (Returned /\ nanStep) =>
          /\ ReturnedValues = last2
          /\ result.parameterError = error(data, last2, fn)
          /\ steps2 = 1 => ReturnedValues = given.initialValues
          /\ result.parameterValues # parameters

C10_Witness ==
    /\ Returned /\ nanStep /\ steps2 >= 2
    /\ ~isNaN(result.parameterError) /\ ReturnedValues # given.initialValues

====
